---- MODULE Spec2Model ----
(***************************************************************************)
(* Model of bsym's SymmetryOperation (src/bsym/symmetry_operation.py).     *)
(*                                                                         *)
(* A numpy matrix is a sequence of rows, each row a sequence of integers.  *)
(* Matrix and vector positions are 1-based here (TLA+ sequences); the      *)
(* values stored in site-mapping vectors keep the code's numbering, and    *)
(* every conversion between the two is written out.                        *)
(* Instances live in `heap`; an instance's identity is its position.       *)
(* `last` records the most recent call: its name, receiver, argument,      *)
(* indexing flag, returned value and the exception it raised ("none" when  *)
(* it returned normally).                                                  *)
(***************************************************************************)
EXTENDS Integers, Sequences, FiniteSets

VARIABLES heap, last

vars == <<heap, last>>

\* Bounds of the model.
MaxDim == 3      \* longest site-mapping vector / largest permutation matrix
MaxObjs == 3     \* live instances: two operands and the results built from them
MaxShape == 2    \* rows and columns of matrices that are not permutation matrices

None == "None"
Labels == {"E"}
Entries == {0, 1}
Occupations == {0, 1, 2}

\* ------------------------------------------------------------------------
\* numpy
\* ------------------------------------------------------------------------
Rows(m) == Len(m)

Cols(m) == IF Len(m) = 0 THEN 0 ELSE Len(m[1])

IsSquare(m) == Rows(m) = Cols(m)

\* np.zeros((r, c), dtype=int)
Zeros(r, c) == [i \in 1..r |-> [j \in 1..c |-> 0]]

RECURSIVE SumTo(_, _)
\* sum of f[1..k]
SumTo(f, k) == IF k = 0 THEN 0 ELSE SumTo(f, k - 1) + f[k]

\* the entry-by-entry product that `*` computes on plain arrays
MatMulElementwise(a, b) ==
  IF Rows(a) # Rows(b) \/ Cols(a) # Cols(b)
  THEN [err |-> "ValueError", val |-> <<>>]
  ELSE [err |-> "none",
        val |-> [i \in 1..Rows(a) |-> [j \in 1..Cols(a) |-> a[i][j] * b[i][j]]]]

\* np.matrix.__mul__: the matrix product, ValueError on misaligned shapes
MatMul(a, b) ==
  IF Cols(a) # Rows(b)
  THEN [err |-> "ValueError", val |-> <<>>]
  ELSE [err |-> "none",
        val |-> [i \in 1..Rows(a) |->
                  [j \in 1..Cols(b) |->
                    SumTo([k \in 1..Cols(a) |-> a[i][k] * b[k][j]], Cols(a))]]]

\* np.trace: the sum of the main diagonal
Trace(m) ==
  LET d == IF Rows(m) < Cols(m) THEN Rows(m) ELSE Cols(m)
  IN  SumTo([k \in 1..d |-> m[k][k]], d)

Abs(x) == IF x < 0 THEN -x ELSE x

\* float -> int conversion of the quotient a / d: truncation toward zero
TruncDiv(a, d) ==
  LET q == Abs(a) \div Abs(d)
  IN  IF (a < 0) # (d < 0) THEN -q ELSE q

DropAt(s, k) == [i \in 1..(Len(s) - 1) |-> IF i < k THEN s[i] ELSE s[i + 1]]

\* m without row i and column j
Minor(m, i, j) == [r \in 1..(Rows(m) - 1) |-> DropAt(DropAt(m, i)[r], j)]

Sign(k) == IF k % 2 = 0 THEN 1 ELSE -1

RECURSIVE Det(_)
\* determinant by expansion along the first row
Det(m) ==
  IF Rows(m) = 0 THEN 1
  ELSE IF Rows(m) = 1 THEN m[1][1]
  ELSE IF Rows(m) = 2 THEN m[1][1] * m[2][2] - m[1][2] * m[2][1]
  ELSE SumTo([j \in 1..Cols(m) |->
               IF m[1][j] = 0 THEN 0
               ELSE Sign(1 + j) * m[1][j] * Det(Minor(m, 1, j))],
             Cols(m))

\* an inverse built from the cofactor matrix without transposing it
InvAsIntCofactor(m) ==
  IF ~IsSquare(m) THEN [err |-> "LinAlgError", val |-> <<>>]
  ELSE LET d == Det(m)
       IN  IF d = 0 THEN [err |-> "LinAlgError", val |-> <<>>]
           ELSE [err |-> "none",
                 val |-> [i \in 1..Rows(m) |->
                           [j \in 1..Rows(m) |->
                             TruncDiv(Sign(i + j) * Det(Minor(m, i, j)), d)]]]

\* np.linalg.inv( m ).astype( int ): the inverse adj(m)/det(m), each entry
\* truncated toward zero; LinAlgError for a non-square or singular matrix.
\* (Exact arithmetic: LAPACK's LU of a permutation matrix has pivots 1 and
\* multipliers 0, so its floating-point inverse is exact.)
InvAsInt(m) ==
  IF ~IsSquare(m) THEN [err |-> "LinAlgError", val |-> <<>>]
  ELSE LET d == Det(m)
       IN  IF d = 0 THEN [err |-> "LinAlgError", val |-> <<>>]
           ELSE [err |-> "none",
                 val |-> [i \in 1..Rows(m) |->
                           [j \in 1..Rows(m) |->
                             TruncDiv(Sign(i + j) * Det(Minor(m, j, i)), d)]]]

\* the position of the last 1 of a row instead of the first
RowIndexOfLastOne(row) ==
  IF \E j \in 1..Len(row) : row[j] = 1
  THEN (CHOOSE j \in 1..Len(row) :
          row[j] = 1 /\ \A k \in (j + 1)..Len(row) : row[k] # 1) - 1
  ELSE -1

\* list.index( 1 ), 0-based; -1 stands for the ValueError of a missing value
RowIndexOfOne(row) ==
  IF \E j \in 1..Len(row) : row[j] = 1
  THEN (CHOOSE j \in 1..Len(row) :
          row[j] = 1 /\ \A k \in 1..(j - 1) : row[k] # 1) - 1
  ELSE -1

\* ------------------------------------------------------------------------
\* SymmetryOperation
\* ------------------------------------------------------------------------

\* a constructor that accepts square two-dimensional input only
SymmetryOperationInitSquare(matrix, label) ==
  IF matrix.type \in {"matrix", "ndarray", "list"}
     /\ matrix.ndim = 2 /\ IsSquare(matrix.data)
  THEN [err |-> "none", val |-> [matrix |-> matrix.data, label |-> label]]
  ELSE [err |-> "TypeError", val |-> <<>>]

\* __init__( self, matrix, label=None ).  The argument is a typed value
\* [type, ndim, data]; a 1-D list or array becomes a 1 x n matrix.
SymmetryOperationInit(matrix, label) ==
  IF matrix.type = "matrix"
  THEN [err |-> "none", val |-> [matrix |-> matrix.data, label |-> label]]
  ELSE IF matrix.type = "ndarray" \/ matrix.type = "list"
  THEN [err |-> "none",
        val |-> [matrix |-> IF matrix.ndim = 1 THEN <<matrix.data>> ELSE matrix.data,
                 label |-> label]]
  ELSE [err |-> "TypeError", val |-> <<>>]

\* a numpy matrix as a constructor argument
AsMatrixArg(m) == [type |-> "matrix", ndim |-> 2, data |-> m]

\* the product taken in the opposite order
MulReversed(self, other) ==
  LET p == MatMul(other.matrix, self.matrix)
  IN  IF p.err # "none" THEN p
      ELSE SymmetryOperationInit(AsMatrixArg(p.val), None)

\* __mul__( self, other ), other a SymmetryOperation
Mul(self, other) ==
  LET p == MatMul(self.matrix, other.matrix)
  IN  IF p.err # "none" THEN p
      ELSE SymmetryOperationInit(AsMatrixArg(p.val), None)

\* __mul__( self, other ), other a raw matrix
MulMatrix(self, other) ==
  LET p == MatMul(self.matrix, other)
  IN  IF p.err # "none" THEN p
      ELSE SymmetryOperationInit(AsMatrixArg(p.val), None)

\* an inverse that carries the receiver's label over
InvertKeepsLabel(self) ==
  LET inv == InvAsInt(self.matrix)
  IN  IF inv.err # "none" THEN inv
      ELSE SymmetryOperationInit(AsMatrixArg(inv.val), self.label)

\* invert( self )
Invert(self) ==
  LET inv == InvAsInt(self.matrix)
  IN  IF inv.err # "none" THEN inv
      ELSE SymmetryOperationInit(AsMatrixArg(inv.val), None)

\* numpy's index along an axis of size dim: negative values count from the
\* end; 0 stands for the IndexError of an out-of-bounds index (positions in
\* the result are 1-based)
NumpyIndex(element, dim) ==
  IF element >= 0 /\ element < dim THEN element + 1
  ELSE IF element < 0 /\ element >= -dim THEN element + dim + 1
  ELSE 0

\* from_vector with row and column exchanged: matrix[ element, index ] = 1
FromVectorTransposed(vector, count_from_zero) ==
  LET shifted == IF ~count_from_zero
                 THEN [i \in 1..Len(vector) |-> vector[i] - 1]
                 ELSE vector
      dim == Len(shifted)
  IN  IF \E i \in 1..dim : NumpyIndex(shifted[i], dim) = 0
      THEN [err |-> "IndexError", val |-> <<>>]
      ELSE [err |-> "none",
            val |-> [matrix |-> [i \in 1..dim |->
                                  [j \in 1..dim |->
                                    IF i = NumpyIndex(shifted[j], dim) THEN 1
                                    ELSE 0]],
                     label |-> None]]

\* from_vector( cls, vector, count_from_zero )
FromVectorOp(vector, count_from_zero) ==
  LET shifted == IF ~count_from_zero
                 THEN [i \in 1..Len(vector) |-> vector[i] - 1]
                 ELSE vector
      dim == Len(shifted)
  IN  IF \E i \in 1..dim : NumpyIndex(shifted[i], dim) = 0
      THEN [err |-> "IndexError", val |-> <<>>]
      ELSE [err |-> "none",
            val |-> [matrix |-> [i \in 1..dim |->
                                  [j \in 1..dim |->
                                    IF j = NumpyIndex(shifted[i], dim) THEN 1
                                    ELSE Zeros(dim, dim)[i][j]]],
                     label |-> None]]

\* similarity_transform( self, s ), s a SymmetryOperation:
\* s.invert() * self * s, evaluated left to right
SimilarityTransformOp(self, s) ==
  LET si == Invert(s)
  IN  IF si.err # "none" THEN si
      ELSE LET sm == Mul(si.val, self)
           IN  IF sm.err # "none" THEN sm ELSE Mul(sm.val, s)

\* similarity_transform( self, s ), s a raw numpy matrix: numpy matrices have
\* no attribute `invert`, so evaluating s.invert() raises AttributeError
SimilarityTransformMatrix(self, s) == [err |-> "AttributeError", val |-> <<>>]

\* character( self )
Character(self) == Trace(self.matrix)

\* as_vector that ignores the flag and always counts from one
AsVectorOneBased(self, count_from_zero) ==
  LET rows == self.matrix
  IN  IF \E i \in 1..Len(rows) : RowIndexOfOne(rows[i]) = -1
      THEN [err |-> "ValueError", val |-> <<>>]
      ELSE [err |-> "none",
            val |-> [i \in 1..Len(rows) |-> RowIndexOfOne(rows[i]) + 1]]

\* as_vector( self, count_from_zero )
AsVectorOp(self, count_from_zero) ==
  LET offset == IF count_from_zero THEN 0 ELSE 1
      rows == self.matrix
  IN  IF \E i \in 1..Len(rows) : RowIndexOfOne(rows[i]) = -1
      THEN [err |-> "ValueError", val |-> <<>>]
      ELSE [err |-> "none",
            val |-> [i \in 1..Len(rows) |-> RowIndexOfOne(rows[i]) + offset]]

\* Configuration( values ): a column vector, one row per site
Configuration(values) == [i \in 1..Len(values) |-> values[i]]

\* operate_on( self, configuration )
OperateOnOp(self, configuration) ==
  LET p == MatMul(self.matrix, configuration)
  IN  IF p.err # "none" THEN p
      ELSE [err |-> "none", val |-> Configuration(p.val)]

\* set_label( self, label ): the receiver with its label replaced
SetLabelOp(self, label) == [self EXCEPT !.label = label]

\* ------------------------------------------------------------------------
\* Inputs
\* ------------------------------------------------------------------------
Bool == {TRUE, FALSE}

\* all r x c matrices of 0/1 entries
Matrices(r, c) == [1..r -> [1..c -> Entries]]

\* flat sequences of n entries
Flat(n) == [1..n -> Entries]

\* configurations of n sites: n x 1 columns of occupation values
Configs(n) == {[i \in 1..n |-> <<f[i]>>] : f \in [1..n -> Occupations]}

\* integer vectors of length n: every valid target in either numbering, and
\* values below and above the valid range
Vectors(n) == [1..n -> (-1)..(n + 1)]

\* is v a permutation of 0..n-1 (count_from_zero) or of 1..n
IsPermutationVector(v, count_from_zero) ==
  LET lo == IF count_from_zero THEN 0 ELSE 1
  IN  /\ \A i \in 1..Len(v) : v[i] >= lo /\ v[i] <= lo + Len(v) - 1
      /\ \A i, j \in 1..Len(v) : v[i] = v[j] => i = j

PermutationVectors(n, count_from_zero) ==
  LET lo == IF count_from_zero THEN 0 ELSE 1
  IN  {v \in [1..n -> lo..(lo + n - 1)] : IsPermutationVector(v, count_from_zero)}

\* exactly one 1 in every row and every column, zeros elsewhere
IsPermutationMatrix(m) ==
  /\ IsSquare(m)
  /\ \A i \in 1..Rows(m) : Len(m[i]) = Rows(m)
  /\ \A i, j \in 1..Rows(m) : m[i][j] \in {0, 1}
  /\ \A i \in 1..Rows(m) : Cardinality({j \in 1..Rows(m) : m[i][j] = 1}) = 1
  /\ \A j \in 1..Rows(m) : Cardinality({i \in 1..Rows(m) : m[i][j] = 1}) = 1

Transpose(m) == [j \in 1..Cols(m) |-> [i \in 1..Rows(m) |-> m[i][j]]]

Identity(n) == [i \in 1..n |-> [j \in 1..n |-> IF i = j THEN 1 ELSE 0]]

\* ------------------------------------------------------------------------
\* Calls
\* ------------------------------------------------------------------------
Init ==
  /\ heap = <<>>
  /\ last = [op |-> "start", self |-> 0, arg |-> 0, c |-> FALSE, ret |-> 0,
             err |-> "none"]

Objs == 1..Len(heap)

\* a call that returns a new instance, or raises and allocates nothing
Allocates(op, self, arg, c, r) ==
  /\ heap' = IF r.err = "none" THEN Append(heap, r.val) ELSE heap
  /\ last' = [op |-> op, self |-> self, arg |-> arg, c |-> c,
              ret |-> IF r.err = "none" THEN Len(heap) + 1 ELSE 0,
              err |-> r.err]

\* a call that returns a value and changes no instance
Returns(op, self, arg, c, r) ==
  /\ heap' = heap
  /\ last' = [op |-> op, self |-> self, arg |-> arg, c |-> c,
              ret |-> r.val, err |-> r.err]

New(matrix, label) ==
  Allocates("init", 0, matrix, FALSE, SymmetryOperationInit(matrix, label))

FromVector(vector, count_from_zero) ==
  Allocates("from_vector", 0, vector, count_from_zero,
            FromVectorOp(vector, count_from_zero))

Multiply(i, j) ==
  Allocates("mul", i, j, FALSE, Mul(heap[i], heap[j]))

MultiplyMatrix(i, m) ==
  Allocates("mul_matrix", i, m, FALSE, MulMatrix(heap[i], m))

Inversion(i) ==
  Allocates("invert", i, 0, FALSE, Invert(heap[i]))

SimilarityTransform(i, j) ==
  Allocates("similarity_transform", i, j, FALSE,
            SimilarityTransformOp(heap[i], heap[j]))

SimilarityTransformRaw(i, m) ==
  Allocates("similarity_transform_matrix", i, m, FALSE,
            SimilarityTransformMatrix(heap[i], m))

OperateOn(i, configuration) ==
  Returns("operate_on", i, configuration, FALSE,
          OperateOnOp(heap[i], configuration))

TakeCharacter(i) ==
  Returns("character", i, 0, FALSE, [err |-> "none", val |-> Character(heap[i])])

AsVector(i, count_from_zero) ==
  Returns("as_vector", i, 0, count_from_zero, AsVectorOp(heap[i], count_from_zero))

\* set_label mutates the receiver in place and returns it
SetLabel(i, label) ==
  /\ heap' = [heap EXCEPT ![i] = SetLabelOp(heap[i], label)]
  /\ last' = [op |-> "set_label", self |-> i, arg |-> label, c |-> FALSE,
              ret |-> i, err |-> "none"]

\* ------------------------------------------------------------------------
\* Spec: the group generated by two permutation operations of one
\* dimension n <= MaxDim.  The two operands are built by from_vector from
\* any permutation vectors; multiply, invert and similarity_transform then
\* run on every instance at hand, results included.
\* ------------------------------------------------------------------------
Dims == IF heap = <<>> THEN 1..MaxDim ELSE {Rows(heap[1].matrix)}

Next ==
  \/ /\ Len(heap) < 2
     /\ \E n \in Dims, c \in Bool :
          \E v \in PermutationVectors(n, c) : FromVector(v, c)
  \/ /\ Len(heap) < MaxObjs
     /\ \E i, j \in Objs : Multiply(i, j)
  \/ /\ Len(heap) < MaxObjs
     /\ \E i \in Objs : Inversion(i)
  \/ /\ Len(heap) < MaxObjs
     /\ \E i, j \in Objs : SimilarityTransform(i, j)

Spec == Init /\ [][Next]_vars

\* ------------------------------------------------------------------------
\* SpecFn: one constructor call on arbitrary input, then queries of the
\* instance it built
\* ------------------------------------------------------------------------
NextFn ==
  \/ /\ last.op = "start"
     /\ \E t \in {"list", "ndarray", "matrix"}, r, c \in 1..MaxShape,
           label \in Labels \cup {None} :
          \E m \in Matrices(r, c) : New([type |-> t, ndim |-> 2, data |-> m], label)
  \/ /\ last.op = "start"
     /\ \E t \in {"list", "ndarray", "tuple"}, n \in 1..MaxShape,
           label \in Labels \cup {None} :
          \E v \in Flat(n) : New([type |-> t, ndim |-> 1, data |-> v], label)
  \/ /\ last.op = "start"
     /\ \E n \in 1..MaxDim, c \in Bool : \E v \in Vectors(n) : FromVector(v, c)
  \/ \E i \in Objs, c \in Bool : AsVector(i, c)
  \/ \E i \in Objs : TakeCharacter(i)
  \/ \E i \in Objs : \E cfg \in Configs(Cols(heap[i].matrix)) : OperateOn(i, cfg)

SpecFn == Init /\ [][NextFn]_vars

\* ------------------------------------------------------------------------
\* SpecAlg: the algebra on operands that need not be permutations.  The two
\* operands are built by from_vector from any vectors of in-range targets
\* (repeated targets give singular matrices); every form of multiply,
\* invert and similarity_transform then runs on the instances at hand, the
\* raw matrices being matrices of those instances.
\* ------------------------------------------------------------------------
NextAlg ==
  \/ /\ Len(heap) < 2
     /\ \E n \in 1..MaxShape : \E v \in [1..n -> 0..(n - 1)] : FromVector(v, TRUE)
  \/ /\ Len(heap) < MaxObjs
     /\ \E i, j \in Objs : Multiply(i, j)
  \/ /\ Len(heap) < MaxObjs
     /\ \E i, j \in Objs : MultiplyMatrix(i, heap[j].matrix)
  \/ /\ Len(heap) < MaxObjs
     /\ \E i \in Objs : Inversion(i)
  \/ /\ Len(heap) < MaxObjs
     /\ \E i, j \in Objs : SimilarityTransform(i, j)
  \/ /\ Len(heap) < MaxObjs
     /\ \E i \in Objs : SimilarityTransformRaw(i, heap[1].matrix)

SpecAlg == Init /\ [][NextAlg]_vars

\* ------------------------------------------------------------------------
\* SpecLabel: labelled permutation operations of dimension <= MaxShape under
\* the algebra and set_label
\* ------------------------------------------------------------------------
DimsLabel == IF heap = <<>> THEN 1..MaxShape ELSE {Rows(heap[1].matrix)}

NextLabel ==
  \/ /\ Len(heap) < 2
     /\ \E n \in DimsLabel : \E v \in PermutationVectors(n, FALSE) :
          FromVector(v, FALSE)
  \/ /\ Len(heap) < MaxObjs
     /\ \E i, j \in Objs : Multiply(i, j)
  \/ /\ Len(heap) < MaxObjs
     /\ \E i \in Objs : Inversion(i)
  \/ /\ Len(heap) < MaxObjs
     /\ \E i, j \in Objs : SimilarityTransform(i, j)
  \/ \E i \in Objs, l \in Labels : SetLabel(i, l)

SpecLabel == Init /\ [][NextLabel]_vars

\* ------------------------------------------------------------------------
\* Properties
\* ------------------------------------------------------------------------

\* C1 (SpecFn): for every permutation vector v and either value c of the
\* indexing flag, from_vector(v, c) succeeds and as_vector(c) of the result
\* returns exactly v.
RoundTripC1 ==
  (last.op = "from_vector" /\ IsPermutationVector(last.arg, last.c)) =>
    /\ last.err = "none"
    /\ AsVectorOp(heap[last.ret], last.c) = [err |-> "none", val |-> last.arg]

WitnessC1 ==
  /\ last.op = "from_vector"
  /\ last.c = FALSE
  /\ last.arg = <<2, 3, 1>>
  /\ last.err = "none"
  /\ AsVectorOp(heap[last.ret], FALSE).val = <<2, 3, 1>>

\* C2 (SpecAlg): for operations a and b of equal dimension, a * b succeeds
\* and, for every configuration c, (a * b).operate_on(c) equals
\* a.operate_on(b.operate_on(c)): b acts first, then a.
ComposeC2 ==
  (last.op = "mul"
     /\ Rows(heap[last.self].matrix) = Rows(heap[last.arg].matrix)) =>
    /\ last.err = "none"
    /\ \A cfg \in Configs(Rows(heap[last.self].matrix)) :
         /\ OperateOnOp(heap[last.arg], cfg).err = "none"
         /\ OperateOnOp(heap[last.ret], cfg) =
              OperateOnOp(heap[last.self], OperateOnOp(heap[last.arg], cfg).val)

WitnessC2 ==
  /\ last.op = "mul"
  /\ last.err = "none"
  /\ ~IsPermutationMatrix(heap[last.self].matrix)
  /\ Mul(heap[last.self], heap[last.arg]) # Mul(heap[last.arg], heap[last.self])
  /\ heap[last.ret].matrix # Zeros(Rows(heap[last.ret].matrix), Rows(heap[last.ret].matrix))

\* C3 (Spec): invert of a permutation operation p succeeds; its matrix is
\* the transpose of p's matrix, p * p.invert() is the identity matrix, and
\* p.invert().as_vector() is the inverse permutation of p.as_vector().
InvertC3 ==
  last.op = "invert" =>
    /\ last.err = "none"
    /\ LET p == heap[last.self]
           q == heap[last.ret]
           n == Rows(p.matrix)
           pv == AsVectorOp(p, FALSE)
           qv == AsVectorOp(q, FALSE)
       IN  /\ q.matrix = Transpose(p.matrix)
           /\ Mul(p, q).err = "none"
           /\ Mul(p, q).val.matrix = Identity(n)
           /\ pv.err = "none" /\ qv.err = "none"
           /\ \A k \in 1..n : qv.val[pv.val[k]] = k

WitnessC3 ==
  /\ last.op = "invert"
  /\ last.err = "none"
  /\ AsVectorOp(heap[last.self], FALSE).val = <<2, 3, 1>>
  /\ AsVectorOp(heap[last.ret], FALSE).val = <<3, 1, 2>>

\* C4 (SpecFn): for an operation built by from_vector from a permutation
\* vector with 0-based targets t, operate_on of every configuration c of
\* length n succeeds, returns a configuration of length n whose entry i is
\* c[t[i]], and distinct configurations give distinct results.
OperateC4 ==
  (last.op = "from_vector" /\ IsPermutationVector(last.arg, last.c)) =>
    /\ last.err = "none"
    /\ LET n == Len(last.arg)
           t == [i \in 1..n |-> IF last.c THEN last.arg[i] ELSE last.arg[i] - 1]
           o == heap[last.ret]
       IN  /\ \A cfg \in Configs(n) :
                LET r == OperateOnOp(o, cfg)
                IN  /\ r.err = "none"
                    /\ Len(r.val) = n
                    /\ \A i \in 1..n : r.val[i] = cfg[t[i] + 1]
           /\ \A c1, c2 \in Configs(n) :
                OperateOnOp(o, c1).val = OperateOnOp(o, c2).val => c1 = c2

WitnessC4 ==
  /\ last.op = "from_vector"
  /\ last.c = FALSE
  /\ last.arg = <<2, 3, 1>>
  /\ last.err = "none"
  /\ heap[last.ret].matrix = <<<<0, 1, 0>>, <<0, 0, 1>>, <<1, 0, 0>>>>
  /\ OperateOnOp(heap[last.ret], <<<<0>>, <<1>>, <<2>>>>).val = <<<<1>>, <<2>>, <<0>>>>

\* C5 (SpecFn): from_vector(vector, count_from_zero) produces a valid
\* permutation matrix if and only if the vector is a valid permutation (of
\* 0..n-1 when count_from_zero, of 1..n otherwise), for every integer
\* vector, values of 0 and below included.
PermutationIffC5 ==
  last.op = "from_vector" =>
    ((last.err = "none" /\ IsPermutationMatrix(heap[last.ret].matrix))
       <=> IsPermutationVector(last.arg, last.c))

\* C6 as stated (SpecFn): the matrix held is always square, and the
\* constructor rejects non-square and non-2D input.
SquareOnlyC6 ==
  last.op = "init" =>
    /\ last.err = "none" => IsSquare(heap[last.ret].matrix)
    /\ (last.arg.ndim # 2 \/ ~IsSquare(last.arg.data)) =>
         (last.err # "none" /\ last.ret = 0)

\* C6 as amended (SpecFn): the constructor raises TypeError exactly when its
\* argument is not a matrix, an array or a list, and raises nothing else; it
\* accepts rectangular nested input of any shape r x c and flat input of
\* length n, and the matrix held is then r x c, or 1 x n for flat input,
\* with the given label stored.
ConstructionC6 ==
  last.op = "init" =>
    /\ last.err \in {"none", "TypeError"}
    /\ last.err = "TypeError" <=> last.arg.type \notin {"matrix", "ndarray", "list"}
    /\ last.err = "none" =>
         LET m == heap[last.ret].matrix
         IN  /\ last.ret = Len(heap)
             /\ Rows(m) = (IF last.arg.ndim = 1 THEN 1 ELSE Rows(last.arg.data))
             /\ Cols(m) = (IF last.arg.ndim = 1 THEN Len(last.arg.data)
                           ELSE Cols(last.arg.data))
             /\ \A i \in 1..Rows(m) : \A j \in 1..Cols(m) :
                  m[i][j] = (IF last.arg.ndim = 1 THEN last.arg.data[j]
                             ELSE last.arg.data[i][j])

WitnessC6 ==
  /\ last.op = "init"
  /\ last.err = "none"
  /\ last.arg.type = "list"
  /\ last.arg.ndim = 1
  /\ Rows(heap[last.ret].matrix) = 1
  /\ Cols(heap[last.ret].matrix) = 2

\* C7 (SpecFn): as_vector raises ValueError exactly when some row of the
\* matrix has no entry equal to 1 and raises nothing else; otherwise it
\* reports, for every row, the smallest column index holding a 1 (plus the
\* offset), also when the row holds several.
AsVectorC7 ==
  last.op = "as_vector" =>
    LET m == heap[last.self].matrix
        offset == IF last.c THEN 0 ELSE 1
    IN  /\ last.err \in {"none", "ValueError"}
        /\ last.err = "ValueError" <=>
             \E i \in 1..Rows(m) : \A j \in 1..Len(m[i]) : m[i][j] # 1
        /\ last.err = "none" =>
             /\ Len(last.ret) = Rows(m)
             /\ \A i \in 1..Rows(m) :
                  LET k == last.ret[i] - offset + 1
                  IN  /\ k \in 1..Len(m[i])
                      /\ m[i][k] = 1
                      /\ \A j \in 1..(k - 1) : m[i][j] # 1

WitnessC7 ==
  /\ last.op = "as_vector"
  /\ last.err = "none"
  /\ last.c = FALSE
  /\ heap[last.self].matrix = <<<<0, 1>>, <<1, 1>>>>
  /\ last.ret = <<2, 1>>

\* C8 (SpecAlg): similarity_transform(s) returns an operation whose matrix R
\* is inverse(S) x M x S, that is S x R = M x S for invertible S, whether s
\* is an operation or a raw matrix; for permutation operations,
\* transforming the result back with s.invert() recovers M.
SimilarityC8 ==
  last.op \in {"similarity_transform", "similarity_transform_matrix"} =>
    LET M == heap[last.self].matrix
        S == IF last.op = "similarity_transform" THEN heap[last.arg].matrix
             ELSE last.arg
        s == [matrix |-> S, label |-> None]
    IN  (IsSquare(S) /\ Rows(S) = Rows(M) /\ Det(S) # 0) =>
          /\ last.err = "none"
          /\ MatMul(S, heap[last.ret].matrix) = MatMul(M, S)
          /\ (IsPermutationMatrix(S) /\ IsPermutationMatrix(M)) =>
               SimilarityTransformOp(heap[last.ret], Invert(s).val).val.matrix = M

\* C9 (SpecLabel): multiply, invert and similarity_transform return a new
\* instance with no label and leave every existing instance as it was;
\* set_label returns its receiver and changes that instance's label only;
\* no call changes the matrix of an existing instance.
FrameC9 ==
  [][/\ Len(heap') >= Len(heap)
     /\ \A i \in Objs :
          /\ heap'[i].matrix = heap[i].matrix
          /\ heap'[i].label # heap[i].label =>
               (last'.op = "set_label" /\ last'.self = i)
     /\ last'.op \in {"mul", "invert", "similarity_transform"} =>
          /\ last'.err = "none"
          /\ Len(heap') = Len(heap) + 1
          /\ last'.ret = Len(heap')
          /\ last'.ret \notin Objs
          /\ heap'[last'.ret].label = None
          /\ \A i \in Objs : heap'[i] = heap[i]
     /\ last'.op = "set_label" =>
          /\ Len(heap') = Len(heap)
          /\ last'.ret = last'.self
          /\ heap'[last'.self].label = last'.arg]_vars

WitnessC9 ==
  /\ last.op = "invert"
  /\ last.err = "none"
  /\ last.ret # last.self
  /\ heap[last.self].label = "E"
  /\ heap[last.ret].label = None

\* C10 (Spec): every operation reachable from from_vector of permutation
\* vectors of one length n by multiply, invert and similarity_transform has
\* an n x n permutation matrix; no call fails, as_vector succeeds on it, and
\* character() is its number of fixed points.
ClosureC10 ==
  /\ last.err = "none"
  /\ \A i \in Objs :
       LET m == heap[i].matrix
           v == AsVectorOp(heap[i], TRUE)
       IN  /\ IsPermutationMatrix(m)
           /\ Rows(m) = Rows(heap[1].matrix)
           /\ v.err = "none"
           /\ AsVectorOp(heap[i], FALSE).err = "none"
           /\ Character(heap[i]) = Cardinality({k \in 1..Rows(m) : v.val[k] = k - 1})

WitnessC10 ==
  /\ last.op = "mul"
  /\ last.err = "none"
  /\ last.self # last.arg
  /\ Rows(heap[last.ret].matrix) = 3
  /\ Character(heap[last.self]) = 0
  /\ Character(heap[last.ret]) = 3

====
